---------------------------- MODULE Spec2Model ----------------------------
(***************************************************************************)
(* A model of txtp_maker.py (vgmstream's .txtp generator): the descriptor  *)
(* writer, the channel-layer masks, the filter evaluator, the name         *)
(* templater, the duplicate detector and the orchestrator's file/subsong   *)
(* loop.  Text is modelled as sequences of one-character strings, so that  *)
(* str.replace, str.find, zfill, "%08i" and the two regular expressions of *)
(* make() are computed the way Python computes them.                       *)
(***************************************************************************)
EXTENDS Integers, Sequences, FiniteSets, TLC

VARIABLES
    cfg,            \* the parsed arguments (App.cfg / TxtpMaker.cfg)
    fs,             \* descriptor files on disk: path -> content
    rename_map,     \* App.start's rename_map: path -> collisions seen
    last,           \* what the last operation was called with and returned
    hist,           \* history: writes that found their path existing, contents seen
    pc,             \* where App.start is
    file_i,         \* index into filenames_in
    target_subsong, \* App.start's target_subsong
    created, dupes, errors,                     \* per-file counts
    total_created, total_dupes, total_errors,   \* run counts
    crc32_map,      \* Cr32Helper.crc32_map (its keys)
    last_dupe,      \* Cr32Helper.last_dupe
    temp,           \* temporary decoded artifacts on disk: path -> content
    tool            \* the external tool: the subsong count of the current file

vars == <<cfg, fs, rename_map, last, hist, pc, file_i, target_subsong,
          created, dupes, errors, total_created, total_dupes, total_errors,
          crc32_map, last_dupe, temp, tool>>

runVars == <<pc, file_i, target_subsong, created, dupes, errors,
             total_created, total_dupes, total_errors, crc32_map, last_dupe,
             temp, tool>>

-----------------------------------------------------------------------------
(* Python values *)

\* None, and a value that is not None
NoneV == [some |-> FALSE]
Some(v) == [some |-> TRUE, v |-> v]

\* truthiness of an optional number (None and 0 are falsy)
TruthyNum(o) == o.some /\ o.v /= 0

\* truthiness of an optional string (None and '' are falsy)
TruthyStr(o) == o.some /\ Len(o.v) > 0

\* a dict with no keys; d[k] = v
EmptyMap == [x \in {} |-> 0]
Put(d, k, v) == [x \in (DOMAIN d) \cup {k} |-> IF x = k THEN v ELSE d[x]]

-----------------------------------------------------------------------------
(* Python string operations, on sequences of characters *)

DigitChar == <<"0", "1", "2", "3", "4", "5", "6", "7", "8", "9">>

\* str(n) for n >= 0
RECURSIVE Str(_)
Str(n) == IF n < 10 THEN <<DigitChar[n + 1]>>
          ELSE Str(n \div 10) \o <<DigitChar[(n % 10) + 1]>>

\* s.zfill(w)
RECURSIVE Zfill(_, _)
Zfill(s, w) == IF Len(s) >= w THEN s ELSE Zfill(<<"0">> \o s, w)

\* s.startswith(p)
StartsWith(s, p) == Len(s) >= Len(p) /\ SubSeq(s, 1, Len(p)) = p

\* s[n:]
Drop(s, n) == SubSeq(s, n + 1, Len(s))

\* s.find(p) as a 1-based position, 0 when not found
RECURSIVE FindFrom(_, _, _)
FindFrom(s, p, i) ==
    IF i + Len(p) - 1 > Len(s) THEN 0
    ELSE IF SubSeq(s, i, i + Len(p) - 1) = p THEN i
    ELSE FindFrom(s, p, i + 1)

Find(s, p) == FindFrom(s, p, 1)

\* s.rfind(p) as a 1-based position, 0 when not found
RECURSIVE RFindFrom(_, _, _)
RFindFrom(s, p, i) ==
    IF i < 1 THEN 0
    ELSE IF SubSeq(s, i, i + Len(p) - 1) = p THEN i
    ELSE RFindFrom(s, p, i - 1)

RFind(s, p) == RFindFrom(s, p, Len(s) - Len(p) + 1)

\* s.replace(old, new): every non-overlapping occurrence, left to right
RECURSIVE Replace(_, _, _)
Replace(s, old, new) ==
    IF Len(s) < Len(old) THEN s
    ELSE IF StartsWith(s, old) THEN new \o Replace(Drop(s, Len(old)), old, new)
    ELSE <<Head(s)>> \o Replace(Tail(s), old, new)

\* s.replace(old, new, 1): the first occurrence only
ReplaceFirst(s, old, new) ==
    LET i == Find(s, old)
    IN  IF i = 0 THEN s
        ELSE SubSeq(s, 1, i - 1) \o new \o Drop(s, i + Len(old) - 1)

-----------------------------------------------------------------------------
(* TxtpMaker._write *)

TXTP == <<".", "t", "x", "t", "p">>

\* the width of "%08i"
RenameDigits == 8

\* "_%08i.txtp" % n
RenameSuffix(n) == <<"_">> \o Zfill(Str(n), RenameDigits) \o TXTP

\* the counter a colliding write uses: the ledger's entry, 0 when there is none
RenameCount(rmap, outname) ==
    IF outname \in DOMAIN rmap THEN rmap[outname] ELSE 0

\* _write(outname, line) on the disk fs and the ledger rmap: the disk and
\* the ledger after the call, whether it raised, the path it opened (or
\* refused to open), and whether it took the rename branch
Write(c, fsIn, rmap, outname0, line) ==
    LET outname == outname0 \o TXTP
        collided == c.overwrite_rename /\ outname \in DOMAIN fsIn
        rename_count == RenameCount(rmap, outname)
        rmap1 == IF collided THEN Put(rmap, outname, rename_count + 1) ELSE rmap
        outname1 == IF collided
                    THEN Replace(outname, TXTP, RenameSuffix(rename_count))
                    ELSE outname
    IN  IF ~c.overwrite /\ outname1 \in DOMAIN fsIn
        THEN [raised |-> TRUE, fs |-> fsIn, rename_map |-> rmap1,
              path |-> outname1, first |-> outname, collided |-> collided]
        ELSE [raised |-> FALSE, fs |-> Put(fsIn, outname1, line), rename_map |-> rmap1,
              path |-> outname1, first |-> outname, collided |-> collided]

-----------------------------------------------------------------------------
(* TxtpMaker.__init__: the report of the external tool.  A report is the   *)
(* text of the tool's output, reduced to what _get_string finds after each *)
(* label: NoneV when the label is not in the text.                         *)

\* _get_value(label): the integer after the label, 0 when the label is absent
GetValue(report, label) ==
    IF report[label].some THEN report[label].v ELSE 0

\* _get_text(label): the rest of the line after the label, None when absent
GetText(report, label) == report[label]

\* the fields __init__ reads from the report
Maker(report) ==
    [channels     |-> GetValue(report, "channels"),
     sample_rate  |-> GetValue(report, "sample_rate"),
     num_samples  |-> GetValue(report, "num_samples"),
     stream_count |-> GetValue(report, "stream_count"),
     stream_index |-> GetValue(report, "stream_index"),
     stream_name  |-> GetText(report, "stream_name")]

\* __init__ raises ValueError('Incorrect command result')
Malformed(m) == m.channels <= 0 \/ m.sample_rate <= 0

-----------------------------------------------------------------------------
(* TxtpMaker._is_ignorable *)

\* re.compile(p).match(s) is not None, for the patterns of the model, which
\* are literal texts: the pattern matches at the start of s
ReMatch(p, s) == StartsWith(s, p)

\* stream_seconds < t and stream_seconds > t, with stream_seconds the true
\* quotient num_samples / sample_rate (sample_rate > 0) and t a whole number
SecondsBelow(m, t) == m.num_samples < t * m.sample_rate
SecondsAbove(m, t) == m.num_samples > t * m.sample_rate

IsIgnorable(c, m) ==
    \/ TruthyNum(c.min_channels) /\ m.channels < c.min_channels.v
    \/ TruthyNum(c.max_channels) /\ m.channels > c.max_channels.v
    \/ TruthyNum(c.min_sample_rate) /\ m.sample_rate < c.min_sample_rate.v
    \/ TruthyNum(c.max_sample_rate) /\ m.sample_rate > c.max_sample_rate.v
    \/ TruthyNum(c.min_seconds) /\ SecondsBelow(m, c.min_seconds.v)
    \/ TruthyNum(c.max_seconds) /\ SecondsAbove(m, c.max_seconds.v)
    \/ TruthyNum(c.min_subsongs) /\ m.stream_count < c.min_subsongs.v
    \/ TruthyStr(c.exclude_regex) /\ TruthyStr(m.stream_name)
          /\ ReMatch(c.exclude_regex.v, m.stream_name.v)
    \/ TruthyStr(c.include_regex) /\ TruthyStr(m.stream_name)
          /\ ~ReMatch(c.include_regex.v, m.stream_name.v)

-----------------------------------------------------------------------------
(* TxtpMaker._get_stream_mask *)

\* the loop "for ch in range(1, loops): mask += str(layer + ch) + ','"
RECURSIVE MaskLoop(_, _, _)
MaskLoop(layer, ch, loops) ==
    IF ch >= loops THEN <<>>
    ELSE Str(layer + ch) \o <<",">> \o MaskLoop(layer, ch + 1, loops)

\* a variant: the last layer windowed by the channels that remain
MaskLoopsRemaining(c, m, layer) ==
    IF layer + c.layers.v > m.channels
    THEN m.channels - layer + 1
    ELSE c.layers.v + 1

\* range(1, loops)'s end for the layer at this offset
MaskLoops(c, m, layer) ==
    IF layer + c.layers.v > m.channels
    THEN m.channels - c.layers.v
    ELSE c.layers.v + 1

\* _get_stream_mask(layer): '#C' + the loop's text, its last character cut
GetStreamMask(c, m, layer) ==
    LET mask == <<"#", "C">> \o MaskLoop(layer, 1, MaskLoops(c, m, layer))
    IN  SubSeq(mask, 1, Len(mask) - 1)

-----------------------------------------------------------------------------
(* TxtpMaker._clean_stream_name *)

BadChars == {"%", "*", "?", ":", "\"", "|", "<", ">"}

\* txt.strip(), for blanks
RECURSIVE LStrip(_)
LStrip(s) == IF Len(s) > 0 /\ Head(s) = " " THEN LStrip(Tail(s)) ELSE s

RECURSIVE RStrip(_)
RStrip(s) == IF Len(s) > 0 /\ s[Len(s)] = " " THEN RStrip(SubSeq(s, 1, Len(s) - 1)) ELSE s

Strip(s) == RStrip(LStrip(s))

CleanStreamName(c, m) ==
    IF ~TruthyStr(m.stream_name) THEN NoneV
    ELSE LET t0 == m.stream_name.v
             p1 == RFind(t0, <<"\\">>)
             t1 == IF p1 > 0 THEN Drop(t0, p1) ELSE t0
             p2 == RFind(t1, <<"/">>)
             t2 == IF p2 > 0 THEN Drop(t1, p2) ELSE t1
             t3 == [i \in 1..Len(t2) |-> IF t2[i] \in BadChars THEN "_" ELSE t2[i]]
             p4 == RFind(t3, <<".">>)
             t4 == IF ~c.no_internal_ext /\ p4 > 0 THEN SubSeq(t3, 1, p4 - 1) ELSE t3
             p5 == Find(t4, <<";">>)
             t5 == IF c.no_semicolon /\ p5 > 0 THEN Strip(SubSeq(t4, 1, p5 - 1)) ELSE t4
         IN  Some(t5)

-----------------------------------------------------------------------------
(* TxtpMaker.make: the name template *)

\* the first position j >= i of character ch in s, 0 when there is none
RECURSIVE IndexFrom(_, _, _)
IndexFrom(s, ch, i) ==
    IF i > Len(s) THEN 0
    ELSE IF s[i] = ch THEN i
    ELSE IndexFrom(s, ch, i + 1)

\* re.compile(open + "(.+?)" + close).findall(s): scanning left to right, a
\* match starts at an open character and ends at the first close character
\* that leaves at least one character between them; the scan goes on after
\* the match.  (The texts of the model hold no line break, which "." would
\* not match.)
RECURSIVE FindAllFrom(_, _, _, _)
FindAllFrom(s, open, close, i) ==
    IF i > Len(s) THEN <<>>
    ELSE IF s[i] /= open THEN FindAllFrom(s, open, close, i + 1)
    ELSE LET j == IndexFrom(s, close, i + 2)
         IN  IF j = 0 THEN FindAllFrom(s, open, close, i + 1)
             ELSE <<SubSeq(s, i + 1, j - 1)>> \o FindAllFrom(s, open, close, j + 1)

FindAll(s, open, close) == FindAllFrom(s, open, close, 1)

\* the dict "replaces" of make()
K_fn == <<"f", "n">>
K_filename == <<"f", "i", "l", "e", "n", "a", "m", "e">>
K_ss == <<"s", "s">>
K_subsong == <<"s", "u", "b", "s", "o", "n", "g">>
K_in == <<"i", "n">>
K_internal_name == <<"i", "n", "t", "e", "r", "n", "a", "l", "-", "n", "a", "m", "e">>
K_if == <<"i", "f">>

Replaces(filename_base, index, stream_name) ==
    LET internal_filename == IF TruthyStr(stream_name) THEN stream_name
                             ELSE Some(filename_base)
    IN  (K_fn :> Some(filename_base)) @@ (K_filename :> Some(filename_base))
        @@ (K_ss :> index) @@ (K_subsong :> index)
        @@ (K_in :> stream_name) @@ (K_internal_name :> stream_name)
        @@ (K_if :> internal_filename)

\* "has_values": some {cmd} of the optional text names a key whose value is
\* not None
HasValues(optional, replaces) ==
    \E k \in 1..Len(FindAll(optional, "{", "}")) :
        LET cmd == FindAll(optional, "{", "}")[k]
        IN  cmd \in DOMAIN replaces /\ replaces[cmd].some

\* the loop over pattern1's matches: each <optional> is replaced, at its first
\* occurrence in the text as it is by then, by optional or by nothing
RECURSIVE ResolveOptionals(_, _, _, _)
ResolveOptionals(txt, optionals, k, replaces) ==
    IF k > Len(optionals) THEN txt
    ELSE LET optional == optionals[k]
             tagged == <<"<">> \o optional \o <<">">>
             kept == IF HasValues(optional, replaces) THEN optional ELSE <<>>
         IN  ResolveOptionals(ReplaceFirst(txt, tagged, kept), optionals, k + 1, replaces)

\* the loop over pattern2's matches: each {cmd} with a known cmd is replaced,
\* at its first occurrence in the text as it is by then, by its value
RECURSIVE ReplaceCmds(_, _, _, _)
ReplaceCmds(txt, cmds, k, replaces) ==
    IF k > Len(cmds) THEN txt
    ELSE LET cmd == cmds[k]
             value == IF replaces[cmd].some THEN replaces[cmd].v ELSE <<>>
         IN  IF cmd \in DOMAIN replaces
             THEN ReplaceCmds(ReplaceFirst(txt, <<"{">> \o cmd \o <<"}">>, value),
                              cmds, k + 1, replaces)
             ELSE ReplaceCmds(txt, cmds, k + 1, replaces)

\* lines 327-353: cfg.base_name expanded
ExpandName(base_name, replaces) ==
    LET txt1 == ResolveOptionals(base_name, FindAll(base_name, "<", ">"), 1, replaces)
    IN  ReplaceCmds(txt1, FindAll(txt1, "{", "}"), 1, replaces)

-----------------------------------------------------------------------------
(* TxtpMaker.make *)

\* chr(ord('a') + done)
Letters == <<"a", "b", "c", "d", "e", "f", "g", "h", "i", "j", "k", "l", "m",
             "n", "o", "p", "q", "r", "s", "t", "u", "v", "w", "x", "y", "z">>

\* os.path.basename(path)
Basename(path) == Drop(path, RFind(path, <<"/">>))

\* "index": None when the file has at most one subsong, else the subsong
\* index zero-filled to cfg.zero_fill, or to the digits of the subsong count
SubsongIndex(c, m) ==
    IF m.stream_count <= 1 THEN NoneV
    ELSE IF ~c.zero_fill.some \/ c.zero_fill.v < 0
         THEN Some(Zfill(Str(m.stream_index), Len(Str(m.stream_count))))
         ELSE Some(Zfill(Str(m.stream_index), c.zero_fill.v))

\* filename_base: the basename, cut at its last dot when that dot is past
\* the second character ("pos > 1")
FilenameBase(filename_path) ==
    LET b == Basename(filename_path)
        p == RFind(b, <<".">>)
    IN  IF p > 2 THEN SubSeq(b, 1, p - 1) ELSE b

\* one call of _write inside make(): nothing more happens once a call raised
MakeWrite(c, acc, outname, line) ==
    IF acc.raised THEN acc
    ELSE LET r == Write(c, acc.fs, acc.rename_map, outname, line)
         IN  [fs |-> r.fs, rename_map |-> r.rename_map,
              total_done |-> IF r.raised THEN acc.total_done ELSE acc.total_done + 1,
              raised |-> r.raised,
              writes |-> Append(acc.writes,
                                [path |-> r.path, raised |-> r.raised, text |-> line])]

\* the loop "for layer in range(0, self.channels, cfg.layers)" of make(), in
\* mini mode (name + mask, no content) and in the general mode (name +
\* letter, content + mask); a negative step makes the range empty
RECURSIVE WriteLayers(_, _, _, _, _, _, _)
WriteLayers(c, m, outname, line, layer, done, acc) ==
    IF layer >= m.channels \/ c.layers.v < 0 \/ acc.raised THEN acc
    ELSE LET mask == GetStreamMask(c, m, layer)
             name == IF c.mini_txtp THEN outname \o mask
                     ELSE outname \o <<Letters[done + 1]>>
             text == IF c.mini_txtp THEN <<>> ELSE line \o mask
         IN  WriteLayers(c, m, outname, line, layer + c.layers.v, done + 1,
                         MakeWrite(c, acc, name, text))

\* the name of the general mode: the expanded template, or the fallback
OutName(c, m, filename_path) ==
    LET filename_base == FilenameBase(filename_path)
        index == SubsongIndex(c, m)
        named == IF TruthyStr(c.base_name)
                 THEN ExpandName(c.base_name.v,
                                 Replaces(filename_base, index, CleanStreamName(c, m)))
                 ELSE <<>>
    IN  IF Len(named) > 0 THEN named
        ELSE IF TruthyStr(index) THEN filename_base \o <<"_">> \o index.v
        ELSE filename_base

\* make(filename_path, filename_clean) on the disk fsIn and the ledger rmap:
\* the disk and the ledger after it, total_done, whether a write raised, and
\* the calls of _write it made
Make(c, m, filename_path, filename_clean, fsIn, rmap) ==
    LET acc0 == [fs |-> fsIn, rename_map |-> rmap, total_done |-> 0,
                 raised |-> FALSE, writes |-> <<>>]
        index == SubsongIndex(c, m)
        suffix == IF TruthyStr(index) THEN <<"#">> \o index.v ELSE <<>>
        layered == TruthyNum(c.layers) /\ c.layers.v < m.channels
        outname == IF c.mini_txtp THEN filename_path \o suffix
                   ELSE OutName(c, m, filename_path)
        line == IF c.mini_txtp THEN <<>>
                ELSE (IF TruthyStr(c.subdir) THEN c.subdir.v ELSE <<>>)
                     \o filename_clean \o suffix
    IN  IF IsIgnorable(c, m) THEN acc0
        ELSE IF layered THEN WriteLayers(c, m, outname, line, 0, 0, acc0)
        ELSE MakeWrite(c, acc0, outname, line)

-----------------------------------------------------------------------------
(* Cli._parse: the arguments when no option is given *)

DefaultCfg ==
    [base_name |-> NoneV, zero_fill |-> NoneV, no_internal_ext |-> FALSE,
     mini_txtp |-> FALSE, overwrite |-> FALSE, overwrite_rename |-> FALSE,
     layers |-> NoneV, test_dupes |-> FALSE, subdir |-> NoneV,
     min_channels |-> NoneV, max_channels |-> NoneV,
     min_sample_rate |-> NoneV, max_sample_rate |-> NoneV,
     min_seconds |-> NoneV, max_seconds |-> NoneV, min_subsongs |-> NoneV,
     include_regex |-> NoneV, exclude_regex |-> NoneV, no_semicolon |-> FALSE]

\* the orchestrator's variables, where a specification does not run it
IdleRun ==
    /\ pc = "idle" /\ file_i = 0 /\ target_subsong = 0
    /\ created = 0 /\ dupes = 0 /\ errors = 0
    /\ total_created = 0 /\ total_dupes = 0 /\ total_errors = 0
    /\ crc32_map = {} /\ last_dupe = FALSE /\ temp = EmptyMap
    /\ tool = [count |-> 0]

-----------------------------------------------------------------------------
(* The descriptor writer on its own: one run's calls of _write, under each *)
(* collision policy, in a directory that may hold descriptors of an        *)
(* earlier run.  A call that raises ends the run: nothing in the program   *)
(* catches ValueError.                                                     *)

\* calls of _write in one run
MaxWrites == 4

NameA == <<"a">>
NameA0 == <<"a", "_", "0", "0", "0", "0", "0", "0", "0", "0">>
NameAT == <<"a">> \o TXTP

\* the names _write is called with; the last one holds ".txtp" itself (as
\* the name of mini mode does for an input file a.txtp)
WriteNames == {NameA, NameA0, NameAT}

OldLine == <<"o">>
NewLine == <<"n">>

\* the directories a run may start in
StaleDirs ==
    {[p \in D |-> OldLine] : D \in SUBSET {NameA \o TXTP, NameA0 \o TXTP}}

InitWrite ==
    /\ cfg \in {[DefaultCfg EXCEPT !.overwrite = o, !.overwrite_rename = r] :
                    o \in BOOLEAN, r \in BOOLEAN}
    /\ fs \in StaleDirs
    /\ rename_map = EmptyMap
    /\ last = [op |-> "none"]
    /\ hist = [calls |-> 0, found |-> EmptyMap, seen |-> {}]
    /\ IdleRun

WriteCall ==
    /\ pc = "idle"
    /\ hist.calls < MaxWrites
    /\ \E outname \in WriteNames, line \in {NewLine, <<>>} :
          LET r == Write(cfg, fs, rename_map, outname, line)
              P == outname \o TXTP
              n == IF P \in DOMAIN hist.found THEN hist.found[P] ELSE 0
          IN  /\ fs' = r.fs
              /\ rename_map' = r.rename_map
              /\ last' = [op |-> "write", outname |-> outname, line |-> line,
                          pre_fs |-> fs, pre_rmap |-> rename_map,
                          path |-> r.path, first |-> r.first,
                          collided |-> r.collided, raised |-> r.raised]
              /\ hist' = [calls |-> hist.calls + 1,
                          found |-> IF cfg.overwrite_rename /\ P \in DOMAIN fs
                                    THEN Put(hist.found, P, n + 1)
                                    ELSE hist.found,
                          seen |-> hist.seen]
              /\ pc' = IF r.raised THEN "raised" ELSE pc
    /\ UNCHANGED <<cfg, file_i, target_subsong, created, dupes, errors,
                   total_created, total_dupes, total_errors, crc32_map,
                   last_dupe, temp, tool>>

NextWrite == WriteCall

SpecWrite == InitWrite /\ [][NextWrite]_vars

\* the path a colliding write of outname is expected under: outname, the
\* counter n as eight digits, the extension (n < 10)
Spliced(outname, n) ==
    outname \o <<"_", "0", "0", "0", "0", "0", "0", "0", DigitChar[n + 1]>> \o TXTP

\* the collisions resolved so far for path P
Collisions(P) == IF P \in DOMAIN hist.found THEN hist.found[P] ELSE 0

\* C4: the k-th write that finds a file at P is written under P
\* with the counter k-1 spliced in before the extension, the ledger's entry
\* for P is the number of collisions so far, and no entry decreases.
C4_RenameLedger ==
    /\ \A P \in (DOMAIN rename_map) \cup (DOMAIN hist.found) :
          P \in DOMAIN rename_map /\ rename_map[P] = Collisions(P)
    /\ last.op = "write" =>
          /\ \A P \in DOMAIN last.pre_rmap :
                P \in DOMAIN rename_map /\ rename_map[P] >= last.pre_rmap[P]
          /\ last.collided =>
                LET want == Spliced(last.outname, Collisions(last.first) - 1)
                IN  /\ ~last.raised
                    /\ last.path = want
                    /\ want \in DOMAIN fs /\ fs[want] = last.line

\* C5: under the rename policy no file exists at the renamed path
\* when it is opened, so a colliding write never truncates a file that
\* existed before the call.
C5_RenamedPathIsFree ==
    (last.op = "write" /\ last.collided /\ ~last.raised)
        => last.path \notin DOMAIN last.pre_fs

\* C6: when overwriting is not permitted and a file exists at the
\* path about to be opened, the call fails, and the failed call changes
\* neither the disk nor the ledger.
C6_FailedWriteHasNoEffect ==
    last.op = "write" =>
        /\ (~cfg.overwrite /\ last.path \in DOMAIN last.pre_fs) => last.raised
        /\ last.raised => fs = last.pre_fs /\ rename_map = last.pre_rmap

-----------------------------------------------------------------------------
(* make() on its own: one TxtpMaker, built from one report, makes its      *)
(* descriptors in an empty directory.                                      *)

\* a report of the tool with every label present
Report(ch, sr, ns, sc, si, name) ==
    [channels |-> Some(ch), sample_rate |-> Some(sr), num_samples |-> Some(ns),
     stream_count |-> Some(sc), stream_index |-> Some(si), stream_name |-> name]

\* the input file of a single make(): ab.bin
FileAB == <<"a", "b", ".", "b", "i", "n">>
StemAB == <<"a", "b">>

MakeCall ==
    /\ last.op = "input"
    /\ LET m == Maker(last.report)
           r == Make(cfg, m, Basename(last.filename), last.filename, fs, rename_map)
       IN  /\ ~Malformed(m)
           /\ fs' = r.fs
           /\ rename_map' = r.rename_map
           /\ last' = [op |-> "make", m |-> m, input |-> last,
                       total_done |-> r.total_done, raised |-> r.raised,
                       writes |-> r.writes]
    /\ UNCHANGED <<cfg, hist>>
    /\ UNCHANGED runVars

\* channels of a report, and the layer sizes of -l
MaxChannels == 6
MaxLayers == 3

InitMask ==
    /\ cfg \in {[DefaultCfg EXCEPT !.layers = l, !.mini_txtp = mini] :
                    l \in {NoneV} \cup {Some(n) : n \in 0..MaxLayers},
                    mini \in BOOLEAN}
    /\ fs = EmptyMap
    /\ rename_map = EmptyMap
    /\ \E ch \in 1..MaxChannels :
          last = [op |-> "input", filename |-> FileAB,
                  report |-> Report(ch, 1, 1, 1, 1, NoneV)]
    /\ hist = [calls |-> 0, found |-> EmptyMap, seen |-> {}]
    /\ IdleRun

NextMask == MakeCall

SpecMask == InitMask /\ [][NextMask]_vars

\* numbers lo..hi as text, joined by commas
RECURSIVE Joined(_, _)
Joined(lo, hi) ==
    IF lo > hi THEN <<>>
    ELSE IF lo = hi THEN Str(lo)
    ELSE Str(lo) \o <<",">> \o Joined(lo + 1, hi)

\* the mask token that lists the channels lo..hi; the token of an empty list
\* is "#" alone, the code cutting the last character of '#C'
MaskToken(lo, hi) == IF lo > hi THEN <<"#">> ELSE <<"#", "C">> \o Joined(lo, hi)

Min(a, b) == IF a < b THEN a ELSE b

\* channel-layer splitting applies to the last call of make()
Layered ==
    /\ last.op = "make"
    /\ cfg.layers.some /\ cfg.layers.v >= 1 /\ last.m.channels > cfg.layers.v

\* the descriptor of the k-th layer carries the token that lists lo..hi
LayerWritten(k, lo, hi) ==
    LET w == last.writes[k]
    IN  /\ ~w.raised
        /\ w.path \in DOMAIN fs
        /\ IF cfg.mini_txtp
           THEN /\ w.path = FileAB \o MaskToken(lo, hi) \o TXTP
                /\ w.text = <<>>
           ELSE /\ w.path = StemAB \o <<Letters[k]>> \o TXTP
                /\ w.text = FileAB \o MaskToken(lo, hi)

\* the layer offsets 0, N, 2N, ... < C, counted
LayerCount(C, N) == (C + N - 1) \div N

\* C7 as claimed: one descriptor per layer offset L = 0, N, 2N, ... < C, the
\* mask of the layer at L listing exactly L+1 ... L+min(N, C-L)-1.
C7_AsClaimed ==
    Layered =>
        LET N == cfg.layers.v
            C == last.m.channels
        IN  /\ Len(last.writes) = LayerCount(C, N)
            /\ \A k \in 1..Len(last.writes) :
                  LET L == (k - 1) * N
                  IN  LayerWritten(k, L + 1, L + Min(N, C - L) - 1)

\* C7: when channel-layer splitting applies (N >= 1, C > N) and the names are
\* free, exactly one descriptor is written per layer offset L = 0, N, 2N, ...
\* < C; the mask of a full layer (L + N <= C) lists the N channel numbers
\* L+1 ... L+N, and the mask of a last, partial layer (L + N > C) lists
\* L+1 ... L+(C-N)-1, which is "#" alone when that list is empty.
C7_LayerMasks ==
    Layered =>
        LET N == cfg.layers.v
            C == last.m.channels
        IN  /\ Len(last.writes) = LayerCount(C, N)
            /\ last.total_done = LayerCount(C, N)
            /\ Cardinality(DOMAIN fs) = LayerCount(C, N)
            /\ \A k \in 1..Len(last.writes) :
                  LET L == (k - 1) * N
                  IN  IF L + N <= C
                      THEN LayerWritten(k, L + 1, L + N)
                      ELSE LayerWritten(k, L + 1, L + (C - N) - 1)

\* 6 channels in layers of 2, mini mode: three descriptors, with the masks
\* #C1,2 and #C3,4 and #C5,6
C7_Witness ==
    /\ Layered /\ cfg.mini_txtp
    /\ last.m.channels = 6 /\ cfg.layers.v = 2
    /\ DOMAIN fs = {FileAB \o <<"#", "C", "1", ",", "2">> \o TXTP,
                    FileAB \o <<"#", "C", "3", ",", "4">> \o TXTP,
                    FileAB \o <<"#", "C", "5", ",", "6">> \o TXTP}

-----------------------------------------------------------------------------
(* TxtpMaker.__init__ on its own: one report under one filter              *)
(* configuration.                                                          *)

\* the values a numeric filter option is given, 0..MaxThreshold
MaxThreshold == 2

Thresholds == {NoneV} \cup {Some(v) : v \in 0..MaxThreshold}

NumericFilters == {"min_channels", "max_channels", "min_sample_rate",
                   "max_sample_rate", "min_seconds", "max_seconds", "min_subsongs"}

\* -fni / -fne: unset, or a literal text
Regexes == {NoneV, Some(<<"a">>), Some(<<"b">>)}

\* the text after "stream name: ": no such label, or a name
StreamNames == {NoneV, Some(<<"a", "b">>), Some(<<"b">>)}

\* filter configurations: up to two numeric options given, or the two
\* regular expressions
FilterCfgs ==
    {[[DefaultCfg EXCEPT ![f1] = v1] EXCEPT ![f2] = v2] :
        f1 \in NumericFilters, f2 \in NumericFilters,
        v1 \in Thresholds, v2 \in Thresholds}
    \cup {[DefaultCfg EXCEPT !.include_regex = i, !.exclude_regex = e] :
            i \in Regexes, e \in Regexes}

\* reports: the label "channels: " may be missing
FilterReports ==
    {[Report(1, sr, ns, sc, 1, name) EXCEPT !.channels = ch] :
        ch \in {NoneV, Some(1), Some(2)}, sr \in 1..2, ns \in 0..2,
        sc \in 1..2, name \in StreamNames}

InitFilter ==
    /\ cfg \in FilterCfgs
    /\ \E r \in FilterReports : last = [op |-> "report", report |-> r]
    /\ fs = EmptyMap
    /\ rename_map = EmptyMap
    /\ hist = [calls |-> 0, found |-> EmptyMap, seen |-> {}]
    /\ IdleRun

\* TxtpMaker(cfg, output_b, rename_map)
Construct ==
    /\ last.op = "report"
    /\ LET m == Maker(last.report)
       IN  last' = [op |-> "init", m |-> m, raised |-> Malformed(m),
                    ignorable |-> IF Malformed(m) THEN FALSE ELSE IsIgnorable(cfg, m)]
    /\ UNCHANGED <<cfg, fs, rename_map, hist>>
    /\ UNCHANGED runVars

NextFilter == Construct

SpecFilter == InitFilter /\ [][NextFilter]_vars

\* the rules of the filter, each applying when its option is set
RuleApplies(c, m) ==
    \/ c.min_channels.some /\ m.channels < c.min_channels.v
    \/ c.max_channels.some /\ m.channels > c.max_channels.v
    \/ c.min_sample_rate.some /\ m.sample_rate < c.min_sample_rate.v
    \/ c.max_sample_rate.some /\ m.sample_rate > c.max_sample_rate.v
    \/ c.min_seconds.some /\ m.num_samples < c.min_seconds.v * m.sample_rate
    \/ c.max_seconds.some /\ m.num_samples > c.max_seconds.v * m.sample_rate
    \/ c.min_subsongs.some /\ m.stream_count < c.min_subsongs.v
    \/ m.stream_name.some /\ c.exclude_regex.some
          /\ StartsWith(m.stream_name.v, c.exclude_regex.v)
    \/ m.stream_name.some /\ c.include_regex.some
          /\ ~StartsWith(m.stream_name.v, c.include_regex.v)

\* C8: a well-formed report is ignorable exactly when a rule of a set option
\* applies to it (so an unset option never makes it ignorable), and raising
\* min_channels never makes an ignorable report non-ignorable.
C8_IgnorableIffRuleApplies ==
    (last.op = "init" /\ ~last.raised) =>
        /\ last.ignorable <=> RuleApplies(cfg, last.m)
        /\ \A v \in 0..(MaxThreshold + 1) :
              (last.ignorable /\ cfg.min_channels.some /\ v >= cfg.min_channels.v)
                 => IsIgnorable([cfg EXCEPT !.min_channels = Some(v)], last.m)

-----------------------------------------------------------------------------
(* The name template of make(): templates built of literal characters,     *)
(* {cmd} placeholders and <...> segments, written out as the text of -n.   *)

\* items of a template
MaxItems == 3

Lit(ch) == [k |-> "lit", ch |-> ch]
Ph(name) == [k |-> "ph", name |-> name]
Seg(body) == [k |-> "seg", body |-> body]

K_zz == <<"z", "z">>

\* what a segment holds: up to two of a literal, {ss} and the unknown {zz}
SegItems == {Lit("y"), Ph(K_ss), Ph(K_zz)}
SegBodies == {<<>>} \cup {<<a>> : a \in SegItems}
                    \cup {<<a, b>> : a \in SegItems, b \in SegItems}

TopItems == {Lit("x"), Ph(K_ss), Ph(K_fn), Ph(K_in)} \cup {Seg(b) : b \in SegBodies}

Templates == UNION {[1..n -> TopItems] : n \in 1..MaxItems}

\* the text of a template
RECURSIVE Render(_)
Render(items) ==
    IF Len(items) = 0 THEN <<>>
    ELSE LET it == Head(items)
             txt == IF it.k = "lit" THEN <<it.ch>>
                    ELSE IF it.k = "ph" THEN <<"{">> \o it.name \o <<"}">>
                    ELSE <<"<">> \o Render(it.body) \o <<">">>
         IN  txt \o Render(Tail(items))

\* an input file whose name holds a placeholder: {ss}.bin
FileBraces == <<"{", "s", "s", "}", ".", "b", "i", "n">>

\* the file and the stream name the variables take their values from
NameSources == {<<FileAB, NoneV>>, <<FileAB, Some(<<"n">>)>>, <<FileBraces, NoneV>>}

InitName ==
    /\ \E t \in Templates :
          /\ cfg = [DefaultCfg EXCEPT !.base_name = Some(Render(t))]
          /\ \E src \in NameSources, sc \in {1, 12} :
                last = [op |-> "input", filename |-> src[1], items |-> t,
                        report |-> Report(2, 1, 1, sc, 2, src[2])]
    /\ fs = EmptyMap
    /\ rename_map = EmptyMap
    /\ hist = [calls |-> 0, found |-> EmptyMap, seen |-> {}]
    /\ IdleRun

NextName == MakeCall

SpecName == InitName /\ [][NextName]_vars

\* the variables of a template and their values in the last call of make():
\* the file name without its extension, the subsong index as text (absent
\* for a file of one subsong), the stream name (absent when not reported)
VarValue(name) ==
    IF name = K_fn THEN Some(SubSeq(last.input.filename, 1, Len(last.input.filename) - 4))
    ELSE IF name = K_ss
         THEN (IF last.m.stream_count > 1 THEN Some(<<"0", "2">>) ELSE NoneV)
    ELSE last.m.stream_name

Recognized == {K_fn, K_ss, K_in}

\* a segment is kept when a placeholder in it names a variable with a value
SegKept(body) ==
    \E i \in 1..Len(body) :
        body[i].k = "ph" /\ body[i].name \in Recognized /\ VarValue(body[i].name).some

\* the expansion of a template, item by item
RECURSIVE Expansion(_)
Expansion(items) ==
    IF Len(items) = 0 THEN <<>>
    ELSE LET it == Head(items)
             txt == IF it.k = "lit" THEN <<it.ch>>
                    ELSE IF it.k = "ph"
                         THEN (IF it.name \in Recognized
                               THEN (IF VarValue(it.name).some THEN VarValue(it.name).v
                                     ELSE <<>>)
                               ELSE <<"{">> \o it.name \o <<"}">>)
                    ELSE IF SegKept(it.body) THEN Expansion(it.body)
                    ELSE <<>>
         IN  txt \o Expansion(Tail(items))

\* C9: the descriptor of a template is named by its expansion: each <...>
\* segment kept, brackets stripped, exactly when a placeholder in it names a
\* recognized variable with a value, and removed otherwise; then each
\* recognized placeholder replaced by its value (nothing when absent), the
\* unknown ones left as they are.  (An empty expansion falls back to the file
\* name.)
C9_TemplateExpansion ==
    (last.op = "make" /\ Len(Expansion(last.input.items)) > 0) =>
        /\ Len(last.writes) = 1
        /\ last.writes[1].path = Expansion(last.input.items) \o TXTP

-----------------------------------------------------------------------------
(* Cr32Helper: zlib.crc32 is CRC-32 (polynomial EDB88320, reflected), here *)
(* on 32-bit words kept as sequences of bits, the least significant first. *)

WordBits == 32

\* a byte, and 0xFFFFFFFF, as words
ByteWord(b) == [i \in 1..WordBits |-> IF i <= 8 THEN (b \div (2 ^ (i - 1))) % 2 ELSE 0]
AllOnes == [i \in 1..WordBits |-> 1]

\* a word from its hexadecimal digits, the most significant first
HexWord(digits) ==
    [i \in 1..WordBits |-> (digits[8 - ((i - 1) \div 4)] \div (2 ^ ((i - 1) % 4))) % 2]

CrcPoly == HexWord(<<14, 13, 11, 8, 8, 3, 2, 0>>)

XorWord(a, b) == [i \in 1..WordBits |-> (a[i] + b[i]) % 2]
ShiftRight(a) == [i \in 1..WordBits |-> IF i < WordBits THEN a[i + 1] ELSE 0]

RECURSIVE CrcBitSteps(_, _)
CrcBitSteps(crc, n) ==
    IF n = 0 THEN crc
    ELSE CrcBitSteps(IF crc[1] = 1 THEN XorWord(ShiftRight(crc), CrcPoly)
                     ELSE ShiftRight(crc), n - 1)

\* zlib's table: the eight bit steps of each byte, worked out once
CrcTable == [b \in 0..255 |-> CrcBitSteps(ByteWord(b), 8)]

LowByte(a) ==
    a[1] + 2 * a[2] + 4 * a[3] + 8 * a[4] + 16 * a[5] + 32 * a[6] + 64 * a[7] + 128 * a[8]
ShiftRight8(a) == [i \in 1..WordBits |-> IF i + 8 <= WordBits THEN a[i + 8] ELSE 0]

RECURSIVE CrcBytes(_, _)
CrcBytes(crc, buf) ==
    IF Len(buf) = 0 THEN crc
    ELSE CrcBytes(XorWord(CrcTable[LowByte(XorWord(crc, ByteWord(Head(buf))))],
                          ShiftRight8(crc)),
                  Tail(buf))

\* zlib.crc32(buf, crc)
ZlibCrc32(buf, crc) == XorWord(CrcBytes(XorWord(crc, AllOnes), buf), AllOnes)

\* get_crc32's buf_size
BufSize == 32768

\* get_crc32(filename), on the bytes of the file: read in chunks of buf_size
RECURSIVE Crc32Loop(_, _)
Crc32Loop(data, crc) ==
    IF Len(data) = 0 THEN crc
    ELSE LET n == IF Len(data) < BufSize THEN Len(data) ELSE BufSize
         IN  Crc32Loop(Drop(data, n), ZlibCrc32(SubSeq(data, 1, n), crc))

GetCrc32(data) == Crc32Loop(data, [i \in 1..WordBits |-> 0])

HexChar == <<"0", "1", "2", "3", "4", "5", "6", "7", "8", "9",
             "a", "b", "c", "d", "e", "f">>

\* format(word, '08x')
Hex8(w) ==
    [k \in 1..8 |->
        LET lo == 4 * (8 - k)
        IN  HexChar[w[lo + 1] + 2 * w[lo + 2] + 4 * w[lo + 3] + 8 * w[lo + 4] + 1]]

\* a variant: the checksum looked up but never inserted
UpdateNoInsert(c, map, tmp, filename) ==
    IF ~c.test_dupes THEN [map |-> map, last_dupe |-> FALSE]
    ELSE IF filename \notin DOMAIN tmp THEN [map |-> map, last_dupe |-> FALSE]
    ELSE [map |-> map, last_dupe |-> Hex8(GetCrc32(tmp[filename])) \in map]

\* update(filename) on the ledger (the keys of crc32_map) and the temporary
\* files: the ledger and last_dupe after the call
Update(c, map, tmp, filename) ==
    IF ~c.test_dupes THEN [map |-> map, last_dupe |-> FALSE]
    ELSE IF filename \notin DOMAIN tmp THEN [map |-> map, last_dupe |-> FALSE]
    ELSE LET crc32_str == Hex8(GetCrc32(tmp[filename]))
         IN  IF crc32_str \in map THEN [map |-> map, last_dupe |-> TRUE]
             ELSE [map |-> map \cup {crc32_str}, last_dupe |-> FALSE]

-----------------------------------------------------------------------------
(* App.start: the run.  One step per pass of the "while True" loop, one    *)
(* for what surrounds the loop of a file.                                  *)

\* the most subsongs a file holds
MaxSubsongs == 3

\* filenames_in, as _find_files gives them for a pattern: ./aa.bin, ./bb.bin
FilenamesIn ==
    <<<<".", "/", "a", "a", ".", "b", "i", "n">>,
      <<".", "/", "b", "b", ".", "b", "i", "n">>>>
FilenameIn(i) == FilenamesIn[i]

\* filename_in_clean: backslashes turned, a leading "./" cut
FilenameInClean(filename_in) ==
    LET t == [i \in 1..Len(filename_in) |->
                 IF filename_in[i] = "\\" THEN "/" ELSE filename_in[i]]
    IN  IF StartsWith(t, <<".", "/">>) THEN Drop(t, 2) ELSE t

\* filename_out: ".temp." + filename_in_base + ".wav"
FilenameOut(filename_in) ==
    <<".", "t", "e", "m", "p", ".">> \o Basename(filename_in) \o <<".", "w", "a", "v">>

\* what the tool decodes a subsong to: bytes.  The first two have the same
\* CRC-32 (c622f71d), the third another (fb42dead).
Contents == {<<0, 0, 0, 0, 0>>, <<65, 6, 113, 219, 1>>, <<1, 0, 0, 0, 0>>}

\* descriptors an earlier run left
StaleRunDirs ==
    {EmptyMap,
     [p \in {<<"a", "a">> \o TXTP, <<"a", "a", "_", "1">> \o TXTP} |-> OldLine]}

Init ==
    /\ cfg \in {[DefaultCfg EXCEPT !.test_dupes = d, !.overwrite = o,
                                   !.overwrite_rename = r, !.min_channels = f] :
                    d \in BOOLEAN, o \in {FALSE}, r \in {FALSE},
                    f \in {NoneV, Some(2)}}
    /\ fs \in StaleRunDirs
    /\ rename_map = EmptyMap
    /\ last = [op |-> "none"]
    /\ hist = [calls |-> 0, found |-> EmptyMap, seen |-> {}]
    /\ pc = "start" /\ file_i = 0 /\ target_subsong = 0
    /\ created = 0 /\ dupes = 0 /\ errors = 0
    /\ total_created = 0 /\ total_dupes = 0 /\ total_errors = 0
    /\ crc32_map = {} /\ last_dupe = FALSE /\ temp = EmptyMap
    /\ tool = [count |-> 0]

\* _test_cli(): the tool can be called, or "ERROR: CLI not found"
TestCli ==
    /\ pc = "start"
    /\ \E found \in BOOLEAN :
          /\ pc' = IF found THEN "file" ELSE "nocli"
          /\ file_i' = IF found THEN 1 ELSE file_i
    /\ UNCHANGED <<cfg, fs, rename_map, last, hist, target_subsong, created,
                   dupes, errors, total_created, total_dupes, total_errors,
                   crc32_map, last_dupe, temp, tool>>

\* lines 455-470: the next file of filenames_in; the file holds some number
\* of subsongs
BeginFile ==
    /\ pc = "file" /\ file_i <= Len(FilenamesIn)
    /\ created' = 0 /\ dupes' = 0 /\ errors' = 0
    /\ target_subsong' = 1
    /\ \E n \in 1..MaxSubsongs : tool' = [count |-> n]
    /\ pc' = "loop"
    /\ UNCHANGED <<cfg, fs, rename_map, last, hist, file_i, total_created,
                   total_dupes, total_errors, crc32_map, last_dupe, temp>>

\* what a pass of the loop leaves to be seen of itself
Seen(outcome, m, content, upd, r) ==
    [op |-> "subsong", file |-> file_i, subsong |-> target_subsong,
     outcome |-> outcome, m |-> m, content |-> content,
     updated |-> upd, total_done |-> r.total_done, writes |-> r.writes,
     pre |-> [fs |-> fs, crc32_map |-> crc32_map, last_dupe |-> last_dupe,
              created |-> created, dupes |-> dupes, errors |-> errors,
              seen |-> hist.seen]]

NoMake == [total_done |-> 0, writes |-> <<>>]
NoMaker == [channels |-> 0]

\* lines 473-479: the tool exits non-zero
ToolFails ==
    /\ pc = "loop"
    /\ errors' = errors + 1
    /\ pc' = "cleanup"
    /\ last' = Seen("cli_error", NoMaker, <<>>, FALSE, NoMake)
    /\ UNCHANGED <<cfg, fs, rename_map, hist, file_i, target_subsong, created,
                   dupes, total_created, total_dupes, total_errors, crc32_map,
                   last_dupe, temp, tool>>

\* lines 486-487: update() is called for the subsongs that are not
\* ignorable; for the others the ledger and last_dupe stay as they were
Judged(c, m, map, ld, tmp, filename_out) ==
    IF ~IsIgnorable(c, m) THEN Update(c, map, tmp, filename_out)
    ELSE [map |-> map, last_dupe |-> ld]

\* what make() gave, as lines 489-490 see it
MadeOf(r) ==
    [outcome |-> IF r.raised THEN "write_error" ELSE "made", fs |-> r.fs,
     rename_map |-> r.rename_map, total_done |-> r.total_done,
     writes |-> r.writes]

\* lines 489-493: is_last_dupe() decides between make() and the dupe count
Made(c, m, upd, filename_in, fsIn, rmap) ==
    IF upd.last_dupe
    THEN [outcome |-> "dupe", fs |-> fsIn, rename_map |-> rmap,
          total_done |-> 0, writes |-> <<>>]
    ELSE MadeOf(Make(c, m, Basename(filename_in), FilenameInClean(filename_in),
                     fsIn, rmap))

\* lines 484-497, the report being well formed
Proceed(m, content, upd, r) ==
    /\ crc32_map' = upd.map
    /\ last_dupe' = upd.last_dupe
    /\ hist' = IF ~IsIgnorable(cfg, m) /\ cfg.test_dupes
               THEN [hist EXCEPT !.seen = @ \cup {content}]
               ELSE hist
    /\ fs' = r.fs
    /\ rename_map' = r.rename_map
    /\ last' = Seen(r.outcome, m, content, ~IsIgnorable(cfg, m), r)
    /\ created' = IF r.outcome = "made" THEN created + r.total_done ELSE created
    /\ dupes' = IF r.outcome = "dupe" THEN dupes + 1 ELSE dupes
    /\ IF r.outcome /= "write_error" /\ target_subsong < m.stream_count
       THEN pc' = "loop" /\ target_subsong' = target_subsong + 1
       ELSE /\ pc' = IF r.outcome = "write_error" THEN "raised" ELSE "cleanup"
            /\ UNCHANGED target_subsong

\* line 484 raises: nothing of lines 486-507 runs
Raise(m, content) ==
    /\ pc' = "raised"
    /\ last' = Seen("malformed", m, content, FALSE, NoMake)
    /\ UNCHANGED <<fs, rename_map, hist, created, dupes, crc32_map, last_dupe,
                   target_subsong>>

\* lines 473-497: the tool exits zero, having printed its report and, when
\* duplicates are tested (no -m in the command), having decoded the subsong
\* to filename_out
ToolSucceeds ==
    /\ pc = "loop"
    /\ \E ch \in {NoneV, Some(1), Some(2)},
          content \in (IF cfg.test_dupes THEN Contents ELSE {<<>>}) :
          \E m \in {Maker([Report(1, 1, 1, tool.count, target_subsong, NoneV)
                              EXCEPT !.channels = ch])},
             tmp \in {IF cfg.test_dupes
                      THEN Put(temp, FilenameOut(FilenameIn(file_i)), content)
                      ELSE temp} :
             /\ temp' = tmp
             /\ IF Malformed(m) THEN Raise(m, content)
                ELSE \E upd \in {Judged(cfg, m, crc32_map, last_dupe, tmp,
                                        FilenameOut(FilenameIn(file_i)))} :
                        \E r \in {Made(cfg, m, upd, FilenameIn(file_i), fs,
                                       rename_map)} :
                           Proceed(m, content, upd, r)
    /\ UNCHANGED <<cfg, file_i, errors, total_created, total_dupes,
                   total_errors, tool>>

\* lines 502-507: the temporary file removed, the counts added up
Cleanup ==
    /\ pc = "cleanup"
    /\ LET filename_out == FilenameOut(FilenameIn(file_i))
       IN  temp' = [p \in (DOMAIN temp) \ {filename_out} |-> temp[p]]
    /\ total_created' = total_created + created
    /\ total_dupes' = total_dupes + dupes
    /\ total_errors' = total_errors + errors
    /\ file_i' = file_i + 1
    /\ pc' = "file"
    /\ UNCHANGED <<cfg, fs, rename_map, last, hist, target_subsong, created,
                   dupes, errors, crc32_map, last_dupe, tool>>

\* line 509: "done! (%s done, %s dupes, %s errors)"
Summary ==
    /\ pc = "file" /\ file_i > Len(FilenamesIn)
    /\ pc' = "done"
    /\ UNCHANGED <<cfg, fs, rename_map, last, hist, file_i, target_subsong,
                   created, dupes, errors, total_created, total_dupes,
                   total_errors, crc32_map, last_dupe, temp, tool>>

Next == TestCli \/ BeginFile \/ ToolFails \/ ToolSucceeds \/ Cleanup \/ Summary

Spec == Init /\ [][Next]_vars

-----------------------------------------------------------------------------
(* The run, as its passes leave it.  "last" is the pass just made while    *)
(* the file is the same and pc is "loop", "cleanup" or "raised": nothing   *)
(* has moved since.                                                        *)

JustPassed ==
    last.op = "subsong" /\ last.file = file_i /\ pc \in {"loop", "cleanup", "raised"}

\* C1: a malformed report (channels <= 0 or sample rate <= 0) for a subsong
\* aborts only that subsong: no descriptor is written for it and the run
\* goes on to the rest of the file, to the later files and to the summary.
C1_MalformedAbortsOnlySubsong ==
    (JustPassed /\ last.outcome = "malformed") =>
        /\ fs = last.pre.fs
        /\ pc \in {"loop", "cleanup"}

\* C2: once the subsong loop of a file has ended, however it ended, the
\* temporary decoded artifact of the file is gone; no run ends with one left.
C2_NoTempLeft ==
    pc \in {"file", "done", "raised", "nocli"} => temp = EmptyMap

\* the checksum update() takes of the artifact of the pass
PassCrc == Hex8(GetCrc32(last.content))

\* the descriptors of the pass are there, and counted
PassWritten ==
    /\ Len(last.writes) >= 1
    /\ \A k \in 1..Len(last.writes) :
          ~last.writes[k].raised /\ last.writes[k].path \in DOMAIN fs
    /\ created = last.pre.created + last.total_done

PassIsDupe ==
    /\ last.outcome = "dupe"
    /\ last.writes = <<>>
    /\ fs = last.pre.fs
    /\ created = last.pre.created
    /\ dupes = last.pre.dupes + 1

\* C3 as stated, by content: with duplicates tested, the first subsong that
\* is not ignorable and has a given content is judged non-duplicate, its
\* checksum enters the ledger and its descriptors are written; every later
\* one of the same content is judged duplicate, writes nothing and adds
\* one to the duplicate count.
C3_AsClaimed ==
    (JustPassed /\ cfg.test_dupes /\ last.updated) =>
        IF last.content \in last.pre.seen
        THEN PassIsDupe
        ELSE /\ last.outcome = "made"
             /\ crc32_map = last.pre.crc32_map \cup {PassCrc}
             /\ PassWritten

\* C3: with duplicates tested, a subsong that is not ignorable and whose
\* artifact has a CRC-32 not yet in the ledger is judged non-duplicate, its
\* checksum enters the ledger and make() is called for it, the descriptors
\* written and counted unless a write fails; one whose CRC-32 is in the
\* ledger already (same file or an earlier one) is judged duplicate, writes
\* nothing, leaves the ledger alone and adds one to the duplicate count.
C3_DupesByChecksum ==
    (JustPassed /\ cfg.test_dupes /\ last.updated) =>
        IF PassCrc \in last.pre.crc32_map
        THEN PassIsDupe /\ crc32_map = last.pre.crc32_map
        ELSE /\ last.outcome \in {"made", "write_error"}
             /\ crc32_map = last.pre.crc32_map \cup {PassCrc}
             /\ dupes = last.pre.dupes
             /\ last.outcome = "made" => PassWritten

\* a subsong of the second file with the content of an earlier subsong, judged
\* duplicate
C3_Witness ==
    /\ JustPassed /\ cfg.test_dupes /\ last.updated
    /\ last.file = 2
    /\ last.content \in last.pre.seen
    /\ last.outcome = "dupe"
    /\ dupes = last.pre.dupes + 1

\* C10: while every call of the tool has succeeded, an ignorable subsong
\* writes no descriptor and adds nothing to the created, duplicate and error
\* counts, whatever the subsongs before it were judged.
C10_IgnorableCountsNothing ==
    (/\ JustPassed
     /\ total_errors = 0 /\ errors = 0
     /\ last.outcome \in {"made", "dupe", "write_error"}
     /\ IsIgnorable(cfg, last.m)) =>
        /\ last.writes = <<>>
        /\ fs = last.pre.fs
        /\ created = last.pre.created
        /\ dupes = last.pre.dupes
        /\ errors = last.pre.errors

-----------------------------------------------------------------------------
(* The run under its scheduling: App.start is one sequential thread and a  *)
(* call of the tool returns, so a step that can be made is made.           *)

SpecLive == Init /\ [][Next]_vars /\ WF_vars(Next)

\* the report of the pass says its subsong is the last of the file
ReportAtLast == last.m.stream_index >= last.m.stream_count

\* the indices of a file are 1, 2, 3, ... and its loop ends, the run going on
\* to lines 502-507, right after the first call that exits non-zero (one more
\* error) or whose report is at the last subsong
LoopInOrder ==
    /\ (pc = "loop" /\ ~JustPassed) => target_subsong = 1
    /\ JustPassed =>
          /\ last.outcome = "cli_error" => errors = last.pre.errors + 1
          /\ IF last.outcome = "cli_error" \/ ReportAtLast
             THEN pc = "cleanup"
             ELSE pc = "loop" /\ target_subsong = last.subsong + 1

\* C11: for each file the tool is called at the subsong indices 1, 2, 3, ...
\* in order, none skipped or repeated; the loop of the file ends right after
\* the first call that exits non-zero (one more error, the run going on) or
\* whose report has its subsong index at its subsong count; the next file
\* starts at 1 again; and, the counts being bounded, every loop ends and the
\* run reaches its summary.
C11_SubsongLoop == [](LoopInOrder) /\ ((pc = "loop") ~> (pc = "done"))

=============================================================================
